---- MODULE Spec2Model ----
(***************************************************************************)
(* Model of src/index.mjs: the Express handlers that read and write the    *)
(* T_CCG_USER / T_CCG_ARTICLE / T_CCG_RELATED tables through node-oracledb. *)
(*                                                                         *)
(* Every `await` of a handler is one step of the model, so that requests   *)
(* interleave exactly where the event loop can switch between them.  The   *)
(* database is modelled by its committed tables plus, per connection, the  *)
(* uncommitted work of its transaction.  Every driver call may throw.      *)
(***************************************************************************)
EXTENDS Integers, Sequences, FiniteSets, TLC

(* ------------------------------ bounds -------------------------------- *)
\* concurrent requests (each slot serves one request)
NReq == 2
\* longest `related` array of a POST /article body
MaxRelated == 2
\* Article rows the tables may hold before the first request
MaxInitArticles == 2
\* Related rows of each such Article
MaxInitChildren == 1
\* longest join-row sequence handed to the aggregation loops on their own
MaxRows == 3
\* largest ID_RELATED of such a row (the smallest is 0)
MaxChildId == 2
\* calls made to the two proxy routes (each slot serves one call)
NCall == 4

Req == 1..NReq
Call == 1..NCall

(* --------------------------- JavaScript values ------------------------ *)
\* undefined / null / SQL NULL is None; any other value v is Some(v)
None == <<>>
Some(v) == <<v>>
Val(x) == x[1]

\* JS truthiness of a string-or-undefined (`!name`, `item.url || ""`)
TruthyStr(x) == x # None /\ Val(x) # ""
\* JS truthiness of a number-or-null (`!userId`, `if (row.ID_RELATED)`)
TruthyNum(x) == x # None /\ Val(x) # 0
\* `a || ""` on strings
OrEmpty(x) == IF TruthyStr(x) THEN x ELSE Some("")

\* A VARCHAR2 column cannot hold the empty string: Oracle stores it as NULL
OracleStr(x) == IF x = Some("") THEN None ELSE x

(* ------------------------------ the driver ---------------------------- *)
\* oracledb.autoCommit = true
OracledbAutoCommit == TRUE

\* The autoCommit of one execute()/executeMany() call: the call's own option
\* when given, otherwise the global oracledb.autoCommit.  The property
\* `connection.autocommit` the handlers assign is not read by the driver.
EffectiveAutoCommit(option) == IF option # None THEN Val(option) ELSE OracledbAutoCommit

\* uncommitted work: rows inserted, rows deleted, T_CCG_USER rows as updated
EmptyTxn == [insArt |-> {}, insRel |-> <<>>, delArt |-> {}, delRel |-> {}, updUsers |-> {}]

\* the article tables as one value
Tables(arts, rels) == [articles |-> arts, related |-> rels]

\* the tables after the work t of a transaction is applied to them
ApplyTxn(db, t) ==
  [articles |-> (db.articles \ t.delArt) \cup t.insArt,
   related  |-> SelectSeq(db.related, LAMBDA r : r \notin t.delRel) \o t.insRel]

\* T_CCG_USER after the updated rows of t replace the rows of the same ID_USER
ApplyUserUpdates(us, t) ==
  [u \in DOMAIN us |->
     IF \E r \in t.updUsers : r.id = u
     THEN (CHOOSE r \in t.updUsers : r.id = u).row
     ELSE us[u]]

SeqToSet(s) == {s[i] : i \in 1..Len(s)}

\* the decimal strings of the identifiers the model can meet
IdLimit == MaxInitArticles + NReq + 1

\* Number.prototype.toString of a non-negative integer
NumToString(n) == ToString(n)

\* Oracle's implicit TO_NUMBER of a string bind compared with a NUMBER column
\* (decimal strings only; None: the conversion raises ORA-01722)
OracleToNumber(s) ==
  IF \E n \in 0..IdLimit : NumToString(n) = s
  THEN Some(CHOOSE n \in 0..IdLimit : NumToString(n) = s)
  ELSE None

(* --------------------------- aggregation reader ----------------------- *)
\* A Map as its entries in insertion order
MapHas(m, k) == \E i \in 1..Len(m) : m[i].key = k
MapIndex(m, k) == CHOOSE i \in 1..Len(m) : m[i].key = k
MapGet(m, k) == m[MapIndex(m, k)].value
MapSet(m, k, v) ==
  IF MapHas(m, k) THEN [m EXCEPT ![MapIndex(m, k)].value = v]
  ELSE Append(m, [key |-> k, value |-> v])
MapValues(m) == [i \in 1..Len(m) |-> m[i].value]

\* the object pushed on article.related for one row
RelatedEntry(row) ==
  [type |-> row.DS_TYPE, url |-> row.DS_URL,
   description |-> row.NM_ARTICLE, content |-> row.DS_CONTENT]

\* `if (row.ID_RELATED)`: whether a row contributes a child entry
RowHasChild(row) == TruthyNum(row.ID_RELATED)

\* the parent object built from a row
ArticleHeader(row) ==
  [id |-> NumToString(row.ID_ARTICLE), name |-> row.NM_ARTICLE,
   userId |-> row.T_CCG_USER_ID_USER, related |-> <<>>]

\* one iteration of `for (const row of result.rows)` in GET /article
ListLoopBody(m, row) ==
  LET articleId == row.ID_ARTICLE
      m1 == IF ~MapHas(m, articleId)
            THEN MapSet(m, articleId, ArticleHeader(row))
            ELSE m
  IN IF RowHasChild(row)
     THEN LET article == MapGet(m1, articleId)
          IN MapSet(m1, articleId,
                    [article EXCEPT !.related = Append(@, RelatedEntry(row))])
     ELSE m1

RECURSIVE ListLoop(_, _, _)
ListLoop(rows, i, m) ==
  IF i > Len(rows) THEN m ELSE ListLoop(rows, i + 1, ListLoopBody(m, rows[i]))

\* GET /article: articlesMap filled row by row, then Array.from(values())
AggregateMany(rows) == MapValues(ListLoop(rows, 1, <<>>))

RECURSIVE OneLoop(_, _, _)
OneLoop(rows, i, article) ==
  IF i > Len(rows) THEN article
  ELSE OneLoop(rows, i + 1,
               IF RowHasChild(rows[i])
               THEN [article EXCEPT !.related = Append(@, RelatedEntry(rows[i]))]
               ELSE article)

\* GET /article/:id on a non-empty row set: header from the first row, then
\* every row scanned for a child entry
AggregateOne(rows) == OneLoop(rows, 1, ArticleHeader(rows[1]))

(* ------------------------------ the queries --------------------------- *)
RECURSIVE SortById(_)
SortById(S) ==
  IF S = {} THEN <<>>
  ELSE LET a == CHOOSE x \in S : \A y \in S : x.id <= y.id
       IN <<a>> \o SortById(S \ {a})

\* the rows of one Article in `a LEFT JOIN r ON a.ID_ARTICLE = r.T_CCG_ARTICLE_ID_ARTICLE`
JoinRowsOf(a, rels) ==
  LET ch == SelectSeq(rels, LAMBDA r : r.articleId = a.id)
  IN IF ch = <<>>
     THEN << [ID_ARTICLE |-> a.id, NM_ARTICLE |-> a.name,
              T_CCG_USER_ID_USER |-> Some(a.userId), ID_RELATED |-> None,
              DS_TYPE |-> None, DS_URL |-> None, DS_CONTENT |-> None] >>
     ELSE [i \in 1..Len(ch) |->
             [ID_ARTICLE |-> a.id, NM_ARTICLE |-> a.name,
              T_CCG_USER_ID_USER |-> Some(a.userId), ID_RELATED |-> Some(ch[i].id),
              DS_TYPE |-> ch[i].type, DS_URL |-> ch[i].url,
              DS_CONTENT |-> ch[i].content]]

RECURSIVE JoinAll(_, _)
JoinAll(arts, rels) ==
  IF arts = <<>> THEN <<>>
  ELSE JoinRowsOf(Head(arts), rels) \o JoinAll(Tail(arts), rels)

\* the SELECT of GET /article (ORDER BY a.ID_ARTICLE)
SelectAllArticles(db) == JoinAll(SortById(db.articles), db.related)

\* the SELECT of GET /article/:id (WHERE a.ID_ARTICLE = :id)
SelectArticle(db, id) ==
  JoinAll(SortById({a \in db.articles : a.id = id}), db.related)

(* -------------------------------- state ------------------------------- *)
VARIABLES
  articles,   \* committed rows of T_CCG_ARTICLE: a set of [id, name, userId]
  related,    \* committed rows of T_CCG_RELATED in storage order
  users,      \* committed rows of T_CCG_USER: id -> [username, name, token]
  artSeq,     \* next value of YOUR_ARTICLE_SEQUENCE
  relSeq,     \* next generated ID_RELATED
  pc,         \* per request: the await it stands at
  op,         \* per request: the route
  arg,        \* per request: [id |-> req.params.id, body |-> req.body]
  conn,       \* per request: the handler's `connection`
  txn,        \* per request: uncommitted work of its connection
  newId,      \* per request: newArticleId of POST /article
  resp,       \* per request: the responses sent, in order
  ev,         \* per request: the driver calls and responses made, in order
  fault,      \* per request: the driver calls that threw and their place in ev
  persisted,  \* per request: the work of its connection that was committed
  aggRows,    \* the aggregation loops on their own: the rows handed in
  aggOut,     \* ... and what the two readers built from them
  sessionId,  \* `let sessionId`: the one conversational session of the process
  svc,        \* per proxy call: the session the dialogue service created for it
  cpc,        \* per proxy call: the await it stands at
  cop,        \* per proxy call: the route
  cresp,      \* per proxy call: the responses sent, in order
  forwarded,  \* the assistant.message() calls made: [call, sessionId]
  stored      \* the assignments made to sessionId: [call, id]

dbVars == <<articles, related, users, artSeq, relSeq>>
reqVars == <<pc, op, arg, conn, txn, newId, resp, ev, fault, persisted>>
aggVars == <<aggRows, aggOut>>
proxyVars == <<sessionId, svc, cpc, cop, cresp, forwarded, stored>>
vars == <<articles, related, users, artSeq, relSeq,
          pc, op, arg, conn, txn, newId, resp, ev, fault, persisted,
          aggRows, aggOut,
          sessionId, svc, cpc, cop, cresp, forwarded, stored>>

NoConnection == [state |-> "undefined", autocommit |-> None]

\* the tables as connection h sees them: committed rows and its own work
View(h) == ApplyTxn(Tables(articles, related), txn[h])

\* union of two pieces of transaction work
MergeTxn(p, t) ==
  [insArt |-> p.insArt \cup t.insArt, insRel |-> p.insRel \o t.insRel,
   delArt |-> p.delArt \cup t.delArt, delRel |-> p.delRel \cup t.delRel,
   updUsers |-> {r \in p.updUsers : ~\E q \in t.updUsers : q.id = r.id} \cup t.updUsers]

Send(h, code, body) == resp' = [resp EXCEPT ![h] = Append(@, [code |-> code, body |-> body])]
Log(h, calls) == ev' = [ev EXCEPT ![h] = @ \o calls]
\* the call logged next threw
Threw(h, call) == fault' = [fault EXCEPT ![h] = Append(@, [call |-> call, at |-> Len(ev[h]) + 1])]
Goto(h, label) == pc' = [pc EXCEPT ![h] = label]

\* connection.commit(): the connection's work becomes the committed rows
CommitWork(h, t) ==
  /\ articles' = ApplyTxn(Tables(articles, related), t).articles
  /\ related' = ApplyTxn(Tables(articles, related), t).related
  /\ users' = ApplyUserUpdates(users, t)
  /\ txn' = [txn EXCEPT ![h] = EmptyTxn]
  /\ persisted' = [persisted EXCEPT ![h] = MergeTxn(@, t)]

\* a DML statement that left the connection's work as t, run with the given
\* autoCommit: committed at once when it is true, pending otherwise
Executed(h, t, autoCommit) ==
  IF autoCommit THEN CommitWork(h, t)
  ELSE /\ txn' = [txn EXCEPT ![h] = t]
       /\ UNCHANGED <<articles, related, users, persisted>>

\* the INSERT of one T_CCG_ARTICLE row
InsertArticleWork(t, row) == [t EXCEPT !.insArt = @ \cup {row}]

\* the batched INSERT of T_CCG_RELATED rows
InsertRelatedWork(t, rows) == [t EXCEPT !.insRel = @ \o rows]

\* faulty variant: the child DELETE without its WHERE clause
DeleteRelatedWorkNoWhere(t, id) ==
  [t EXCEPT !.delRel = @ \cup SeqToSet(related), !.insRel = <<>>]

\* DELETE FROM T_CCG_RELATED WHERE T_CCG_ARTICLE_ID_ARTICLE = :id
DeleteRelatedWork(t, id) ==
  [t EXCEPT !.delRel = @ \cup {r \in SeqToSet(related) : r.articleId = id},
            !.insRel = SelectSeq(@, LAMBDA r : r.articleId # id)]

\* DELETE FROM T_CCG_ARTICLE WHERE ID_ARTICLE = :id
DeleteArticleWork(t, id) ==
  [t EXCEPT !.delArt = @ \cup {a \in articles : a.id = id},
            !.insArt = {a \in @ : a.id # id}]

\* result.rowsAffected of that DELETE
ArticleRowsAffected(h, id) == Cardinality({a \in View(h).articles : a.id = id})

(* The foreign key of T_CCG_RELATED to T_CCG_ARTICLE. *)
\* ORA-02291: a child row needs its parent row
ParentPresent(h, id) == \E a \in View(h).articles : a.id = id
\* ORA-02292: a parent row with child rows cannot be deleted
ChildPresent(h, id) == \E i \in 1..Len(View(h).related) : View(h).related[i].articleId = id
\* the parent's DELETE waits for a transaction that holds uncommitted child rows
ChildPending(h, id) ==
  \E g \in Req \ {h} : \E i \in 1..Len(txn[g].insRel) : txn[g].insRel[i].articleId = id

(* ------------------------------- Init --------------------------------- *)
InitUsers ==
  [u \in {1, 2} |->
     [DS_USERNAME |-> Some(IF u = 1 THEN "u" ELSE "v"),
      NM_USER |-> Some(IF u = 1 THEN "U" ELSE "V"),
      DS_TOKEN |-> Some("good")]]

InitArticleRow(i) == [id |-> i, name |-> Some("A"), userId |-> 1]

InitRelatedRow(k, c) ==
  [id |-> k, type |-> Some("link"), url |-> Some("http://x"), content |-> None,
   articleId |-> ((k - 1) \div c) + 1, userId |-> 1]

\* `let sessionId;` and no proxy call in flight
InitProxy ==
  /\ sessionId = None
  /\ svc = [c \in Call |-> None]
  /\ cpc = [c \in Call |-> "idle"]
  /\ cop = [c \in Call |-> "none"]
  /\ cresp = [c \in Call |-> <<>>]
  /\ forwarded = <<>>
  /\ stored = <<>>

InitRequests ==
  /\ pc = [h \in Req |-> "idle"]
  /\ op = [h \in Req |-> "none"]
  /\ arg = [h \in Req |-> [id |-> "", body |-> None]]
  /\ conn = [h \in Req |-> NoConnection]
  /\ txn = [h \in Req |-> EmptyTxn]
  /\ newId = [h \in Req |-> None]
  /\ resp = [h \in Req |-> <<>>]
  /\ ev = [h \in Req |-> <<>>]
  /\ fault = [h \in Req |-> <<>>]
  /\ persisted = [h \in Req |-> EmptyTxn]

\* the tables hold k Articles of c Related rows each, the sequences stand past them
Init ==
  /\ \E k \in 0..MaxInitArticles : \E c \in 0..MaxInitChildren :
       /\ (k = 0 => c = 0)
       /\ articles = {InitArticleRow(i) : i \in 1..k}
       /\ related = [j \in 1..(k * c) |-> InitRelatedRow(j, c)]
       /\ artSeq = k + 1
       /\ relSeq = k * c + 1
  /\ users = InitUsers
  /\ InitRequests
  /\ aggRows = <<>>
  /\ aggOut = [many |-> None, one |-> None]
  /\ InitProxy

\* requests are served in slot order (the slots are interchangeable)
CanStart(h) == pc[h] = "idle" /\ (IF h = 1 THEN TRUE ELSE pc[h - 1] # "idle")

(* ------------------------- shared handler tails ----------------------- *)
ServerError == "Erro de servidor"

\* oracledb.getConnection(dbConfig) resolved or threw.  A throw leaves
\* `connection` undefined: the catch block sends 500 without a rollback and
\* the finally block has nothing to close.
GetConnection(h, ok, autocommitProp, next) ==
  IF ok
  THEN /\ conn' = [conn EXCEPT ![h] = [state |-> "open", autocommit |-> autocommitProp]]
       /\ Log(h, <<"getConnection">>)
       /\ Goto(h, next)
       /\ UNCHANGED <<resp, fault>>
  ELSE /\ Send(h, 500, ServerError)
       /\ Log(h, <<"getConnection", "res">>)
       /\ Threw(h, "getConnection")
       /\ Goto(h, "done")
       /\ UNCHANGED conn

\* faulty variant: a catch block that answers 500 without calling rollback
CatchWithoutRollback(h) ==
  /\ pc[h] = "catch"
  /\ Send(h, 500, ServerError)
  /\ Log(h, <<"res">>)
  /\ Goto(h, "finally")
  /\ UNCHANGED <<dbVars, op, arg, conn, txn, newId, fault, persisted, aggVars, proxyVars>>

\* catch (err) { if (connection) { try { await connection.rollback() } catch {} }
\*               res.status(500).send(...) }
CatchRollback(h) ==
  /\ pc[h] = "catch"
  /\ \E ok \in BOOLEAN :
       /\ txn' = [txn EXCEPT ![h] = IF ok THEN EmptyTxn ELSE @]
       /\ IF ok THEN UNCHANGED fault ELSE Threw(h, "rollback")
  /\ Send(h, 500, ServerError)
  /\ Log(h, <<"rollback", "res">>)
  /\ Goto(h, "finally")
  /\ UNCHANGED <<dbVars, op, arg, conn, newId, persisted, aggVars, proxyVars>>

\* catch (err) { res.status(500).send(...) } of the handlers without rollback
CatchPlain(h) ==
  /\ Send(h, 500, ServerError)
  /\ Goto(h, "finally")

\* finally { if (connection) { try { await connection.close() } catch {} } }
\* Closing a connection ends its session: uncommitted work is rolled back.
Finally(h) ==
  /\ pc[h] = "finally"
  /\ conn[h].state = "open"
  /\ \E ok \in BOOLEAN : IF ok THEN UNCHANGED fault ELSE Threw(h, "close")
  /\ conn' = [conn EXCEPT ![h].state = "closed"]
  /\ txn' = [txn EXCEPT ![h] = EmptyTxn]
  /\ Log(h, <<"close">>)
  /\ Goto(h, "done")
  /\ UNCHANGED <<dbVars, op, arg, newId, resp, persisted, aggVars, proxyVars>>

(* ---------------------------- POST /article --------------------------- *)
ItemFull == [type |-> Some("link"), url |-> Some("http://x"), content |-> Some("c")]
ItemBare == [type |-> Some("link"), url |-> None, content |-> None]
Items == {ItemFull, ItemBare}
RelatedLists == UNION {[1..n -> Items] : n \in 0..MaxRelated}

PostBody(name, userId, isArray, items) ==
  [name |-> name, userId |-> userId,
   related |-> [isArray |-> isArray, items |-> items]]

PostBodies ==
  {PostBody(Some("A"), Some(1), TRUE, l) : l \in RelatedLists}
    \cup {PostBody(None, Some(1), TRUE, <<>>),
          PostBody(Some("A"), Some(0), TRUE, <<>>),
          PostBody(Some("A"), Some(1), FALSE, <<>>)}

\* if (!name || !userId || !Array.isArray(related))
PostPayloadInvalid(body) ==
  ~TruthyStr(body.name) \/ ~TruthyNum(body.userId) \/ ~body.related.isArray

StartPostArticle(h) ==
  /\ CanStart(h)
  /\ \E body \in PostBodies :
       /\ op' = [op EXCEPT ![h] = "POST /article"]
       /\ arg' = [arg EXCEPT ![h] = [id |-> "", body |-> body]]
       /\ IF PostPayloadInvalid(body)
          THEN /\ Send(h, 400, "Invalid payload")
               /\ Log(h, <<"res">>)
               /\ Goto(h, "done")
          ELSE /\ Goto(h, "post_getConnection")
               /\ UNCHANGED <<resp, ev>>
  /\ UNCHANGED <<dbVars, conn, txn, newId, fault, persisted, aggVars, proxyVars>>

PostGetConnection(h) ==
  /\ pc[h] = "post_getConnection"
  /\ \E ok \in BOOLEAN : GetConnection(h, ok, Some(FALSE), "post_insertArticle")
  /\ UNCHANGED <<dbVars, op, arg, txn, newId, persisted, aggVars, proxyVars>>

\* the row of INSERT INTO T_CCG_ARTICLE ... RETURNING ID_ARTICLE INTO :outId
NewArticleRow(h) ==
  [id |-> artSeq, name |-> OracleStr(arg[h].body.name), userId |-> Val(arg[h].body.userId)]

\* await connection.execute(articleSql, articleBindBinds): no options given
PostInsertArticle(h) ==
  /\ pc[h] = "post_insertArticle"
  /\ Log(h, <<"execute">>)
  /\ \/ /\ Executed(h, InsertArticleWork(txn[h], NewArticleRow(h)), EffectiveAutoCommit(None))
        /\ artSeq' = artSeq + 1
        /\ newId' = [newId EXCEPT ![h] = Some(artSeq)]
        /\ Goto(h, IF Len(arg[h].body.related.items) > 0
                   THEN "post_executeMany" ELSE "post_commit")
        /\ UNCHANGED fault
     \/ /\ Threw(h, "execute")
        /\ Goto(h, "catch")
        /\ UNCHANGED <<articles, related, users, artSeq, txn, newId, persisted>>
  /\ UNCHANGED <<relSeq, op, arg, conn, resp, aggVars, proxyVars>>

\* faulty variant: the rows are stamped with the sequence's next value
RelatedDataUnstamped(h) ==
  LET items == arg[h].body.related.items
  IN [i \in 1..Len(items) |->
        [id |-> relSeq + i - 1,
         type |-> OracleStr(items[i].type),
         url |-> OracleStr(OrEmpty(items[i].url)),
         content |-> OracleStr(OrEmpty(items[i].content)),
         articleId |-> artSeq,
         userId |-> Val(arg[h].body.userId)]]

\* relatedData: related.map(item => ({type, url || "", content || "", articleId, userId}))
\* as the rows the batch inserts, ID_RELATED generated by the store
RelatedData(h) ==
  LET items == arg[h].body.related.items
  IN [i \in 1..Len(items) |->
        [id |-> relSeq + i - 1,
         type |-> OracleStr(items[i].type),
         url |-> OracleStr(OrEmpty(items[i].url)),
         content |-> OracleStr(OrEmpty(items[i].content)),
         articleId |-> Val(newId[h]),
         userId |-> Val(arg[h].body.userId)]]

\* await connection.executeMany(relatedSql, relatedData, {autoCommit: false}).
\* A failing batch stops at its first bad row; the rows before it stay in the
\* transaction.
PostExecuteMany(h) ==
  /\ pc[h] = "post_executeMany"
  /\ Log(h, <<"executeMany">>)
  /\ \/ /\ ParentPresent(h, Val(newId[h]))
        /\ Executed(h, InsertRelatedWork(txn[h], RelatedData(h)),
                    EffectiveAutoCommit(Some(FALSE)))
        /\ relSeq' = relSeq + Len(RelatedData(h))
        /\ Goto(h, "post_commit")
        /\ UNCHANGED fault
     \/ /\ \E k \in 0..(Len(RelatedData(h)) - 1) :
             /\ (k > 0 => ParentPresent(h, Val(newId[h])))
             /\ Executed(h, InsertRelatedWork(txn[h], SubSeq(RelatedData(h), 1, k)),
                         EffectiveAutoCommit(Some(FALSE)))
             /\ relSeq' = relSeq + k
        /\ Threw(h, "executeMany")
        /\ Goto(h, "catch")
  /\ UNCHANGED <<artSeq, op, arg, conn, newId, resp, aggVars, proxyVars>>

\* createdArticle
CreatedArticle(h) ==
  LET body == arg[h].body
  IN [id |-> NumToString(Val(newId[h])), name |-> body.name, userId |-> body.userId,
      related |-> [i \in 1..Len(body.related.items) |->
                     [type |-> body.related.items[i].type,
                      url |-> OrEmpty(body.related.items[i].url),
                      description |-> body.name,
                      content |-> OrEmpty(body.related.items[i].content)]]]

\* await connection.commit(); res.status(201).json(createdArticle)
PostCommit(h) ==
  /\ pc[h] = "post_commit"
  /\ \/ /\ CommitWork(h, txn[h])
        /\ Send(h, 201, CreatedArticle(h))
        /\ Log(h, <<"commit", "res">>)
        /\ Goto(h, "finally")
        /\ UNCHANGED fault
     \/ /\ Threw(h, "commit")
        /\ Log(h, <<"commit">>)
        /\ Goto(h, "catch")
        /\ UNCHANGED <<articles, related, users, txn, persisted, resp>>
  /\ UNCHANGED <<artSeq, relSeq, op, arg, conn, newId, aggVars, proxyVars>>

(* -------------------------- DELETE /article/:id ----------------------- *)
\* the :id values requests are made with: every id assigned so far and the next one
ArticleIdParams == {NumToString(n) : n \in 1..artSeq}

\* the :id bind as the NUMBER the statements compare with
BoundId(h) == Val(OracleToNumber(arg[h].id))

StartDeleteArticle(h) ==
  /\ CanStart(h)
  /\ \E id \in ArticleIdParams :
       /\ op' = [op EXCEPT ![h] = "DELETE /article/:id"]
       /\ arg' = [arg EXCEPT ![h] = [id |-> id, body |-> None]]
       /\ IF id = ""
          THEN /\ Send(h, 400, "Article ID is required.")
               /\ Log(h, <<"res">>)
               /\ Goto(h, "done")
          ELSE /\ Goto(h, "del_getConnection")
               /\ UNCHANGED <<resp, ev>>
  /\ UNCHANGED <<dbVars, conn, txn, newId, fault, persisted, aggVars, proxyVars>>

DeleteGetConnection(h) ==
  /\ pc[h] = "del_getConnection"
  /\ \E ok \in BOOLEAN : GetConnection(h, ok, Some(FALSE), "del_deleteRelated")
  /\ UNCHANGED <<dbVars, op, arg, txn, newId, persisted, aggVars, proxyVars>>

\* await connection.execute(relatedSql, { id }): no options given
DeleteRelated(h) ==
  /\ pc[h] = "del_deleteRelated"
  /\ Log(h, <<"execute">>)
  /\ \/ /\ Executed(h, DeleteRelatedWork(txn[h], BoundId(h)), EffectiveAutoCommit(None))
        /\ Goto(h, "del_deleteArticle")
        /\ UNCHANGED fault
     \/ /\ Threw(h, "execute")
        /\ Goto(h, "catch")
        /\ UNCHANGED <<articles, related, users, txn, persisted>>
  /\ UNCHANGED <<artSeq, relSeq, op, arg, conn, newId, resp, aggVars, proxyVars>>

\* const result = await connection.execute(articleSql, { id });
\* if (result.rowsAffected === 0) ... else ...
DeleteArticle(h) ==
  /\ pc[h] = "del_deleteArticle"
  /\ ~ChildPending(h, BoundId(h))
  /\ Log(h, <<"execute">>)
  /\ \/ /\ ~(ArticleRowsAffected(h, BoundId(h)) > 0 /\ ChildPresent(h, BoundId(h)))
        /\ Executed(h, DeleteArticleWork(txn[h], BoundId(h)), EffectiveAutoCommit(None))
        /\ Goto(h, IF ArticleRowsAffected(h, BoundId(h)) = 0
                   THEN "del_notFound" ELSE "del_commit")
        /\ UNCHANGED fault
     \/ /\ Threw(h, "execute")
        /\ Goto(h, "catch")
        /\ UNCHANGED <<articles, related, users, txn, persisted>>
  /\ UNCHANGED <<artSeq, relSeq, op, arg, conn, newId, resp, aggVars, proxyVars>>

\* faulty variant: the 404 return leaves the handler without running its finally block
DeleteNotFoundSkipsFinally(h) ==
  /\ pc[h] = "del_notFound"
  /\ txn' = [txn EXCEPT ![h] = EmptyTxn]
  /\ Send(h, 404, "Artigo nao encontrado")
  /\ Log(h, <<"rollback", "res">>)
  /\ Goto(h, "done")
  /\ UNCHANGED <<dbVars, op, arg, conn, newId, fault, persisted, aggVars, proxyVars>>

\* faulty variant: the 404 is sent before the rollback is awaited
DeleteNotFoundAnswersFirst(h) ==
  /\ pc[h] = "del_notFound"
  /\ Send(h, 404, "Artigo nao encontrado")
  /\ \/ /\ txn' = [txn EXCEPT ![h] = EmptyTxn]
        /\ Log(h, <<"res", "rollback">>)
        /\ Goto(h, "finally")
        /\ UNCHANGED fault
     \/ /\ Threw(h, "rollback")
        /\ Log(h, <<"res", "rollback">>)
        /\ Goto(h, "catch")
        /\ UNCHANGED txn
  /\ UNCHANGED <<dbVars, op, arg, conn, newId, persisted, aggVars, proxyVars>>

\* await connection.rollback(); return res.status(404).json(...)
DeleteNotFound(h) ==
  /\ pc[h] = "del_notFound"
  /\ \/ /\ txn' = [txn EXCEPT ![h] = EmptyTxn]
        /\ Send(h, 404, "Artigo nao encontrado")
        /\ Log(h, <<"rollback", "res">>)
        /\ Goto(h, "finally")
        /\ UNCHANGED fault
     \/ /\ Threw(h, "rollback")
        /\ Log(h, <<"rollback">>)
        /\ Goto(h, "catch")
        /\ UNCHANGED <<txn, resp>>
  /\ UNCHANGED <<dbVars, op, arg, conn, newId, persisted, aggVars, proxyVars>>

\* await connection.commit(); res.status(200).json(...)
DeleteCommit(h) ==
  /\ pc[h] = "del_commit"
  /\ \/ /\ CommitWork(h, txn[h])
        /\ Send(h, 200, "Artigo deletado com sucesso")
        /\ Log(h, <<"commit", "res">>)
        /\ Goto(h, "finally")
        /\ UNCHANGED fault
     \/ /\ Threw(h, "commit")
        /\ Log(h, <<"commit">>)
        /\ Goto(h, "catch")
        /\ UNCHANGED <<articles, related, users, txn, persisted, resp>>
  /\ UNCHANGED <<artSeq, relSeq, op, arg, conn, newId, aggVars, proxyVars>>

(* ----------------------------- GET /article --------------------------- *)
StartGetArticles(h) ==
  /\ CanStart(h)
  /\ op' = [op EXCEPT ![h] = "GET /article"]
  /\ Goto(h, "list_getConnection")
  /\ UNCHANGED <<dbVars, arg, conn, txn, newId, resp, ev, fault, persisted, aggVars, proxyVars>>

ListGetConnection(h) ==
  /\ pc[h] = "list_getConnection"
  /\ \E ok \in BOOLEAN : GetConnection(h, ok, None, "list_execute")
  /\ UNCHANGED <<dbVars, op, arg, txn, newId, persisted, aggVars, proxyVars>>

\* const result = await connection.execute(sql); ...; res.json(allArticles)
ListExecute(h) ==
  /\ pc[h] = "list_execute"
  /\ \/ /\ Send(h, 200, AggregateMany(SelectAllArticles(View(h))))
        /\ Goto(h, "finally")
        /\ Log(h, <<"execute", "res">>)
        /\ UNCHANGED fault
     \/ /\ CatchPlain(h)
        /\ Log(h, <<"execute", "res">>)
        /\ Threw(h, "execute")
  /\ UNCHANGED <<dbVars, op, arg, conn, txn, newId, persisted, aggVars, proxyVars>>

(* --------------------------- GET /article/:id ------------------------- *)
StartGetArticle(h) ==
  /\ CanStart(h)
  /\ \E id \in ArticleIdParams :
       /\ op' = [op EXCEPT ![h] = "GET /article/:id"]
       /\ arg' = [arg EXCEPT ![h] = [id |-> id, body |-> None]]
       /\ IF id = ""
          THEN /\ Send(h, 400, "Article ID is required.")
               /\ Log(h, <<"res">>)
               /\ Goto(h, "done")
          ELSE /\ Goto(h, "one_getConnection")
               /\ UNCHANGED <<resp, ev>>
  /\ UNCHANGED <<dbVars, conn, txn, newId, fault, persisted, aggVars, proxyVars>>

OneGetConnection(h) ==
  /\ pc[h] = "one_getConnection"
  /\ \E ok \in BOOLEAN : GetConnection(h, ok, None, "one_execute")
  /\ UNCHANGED <<dbVars, op, arg, txn, newId, persisted, aggVars, proxyVars>>

\* const result = await connection.execute(sql, { id });
\* if (result.rows.length === 0) return 404; ...; res.json(article)
OneExecute(h) ==
  /\ pc[h] = "one_execute"
  /\ \/ /\ LET rows == SelectArticle(View(h), BoundId(h))
           IN IF Len(rows) = 0
              THEN Send(h, 404, "Artigo nao encontrado")
              ELSE Send(h, 200, AggregateOne(rows))
        /\ Goto(h, "finally")
        /\ Log(h, <<"execute", "res">>)
        /\ UNCHANGED fault
     \/ /\ CatchPlain(h)
        /\ Log(h, <<"execute", "res">>)
        /\ Threw(h, "execute")
  /\ UNCHANGED <<dbVars, op, arg, conn, txn, newId, persisted, aggVars, proxyVars>>

(* ------------------------- the article requests ----------------------- *)
Next ==
  \E h \in Req :
    \/ StartPostArticle(h)
    \/ PostGetConnection(h)
    \/ PostInsertArticle(h)
    \/ PostExecuteMany(h)
    \/ PostCommit(h)
    \/ StartDeleteArticle(h)
    \/ DeleteGetConnection(h)
    \/ DeleteRelated(h)
    \/ DeleteArticle(h)
    \/ DeleteNotFound(h)
    \/ DeleteCommit(h)
    \/ StartGetArticles(h)
    \/ ListGetConnection(h)
    \/ ListExecute(h)
    \/ StartGetArticle(h)
    \/ OneGetConnection(h)
    \/ OneExecute(h)
    \/ CatchRollback(h)
    \/ Finally(h)

Spec == Init /\ [][Next]_vars

(* ------------------------------ PUT /user/:id ------------------------- *)
\* Number(id) of the route parameter; None is NaN
JsNumber(s) ==
  IF OracleToNumber(s) # None THEN OracleToNumber(s)
  ELSE IF s = "0x1" THEN Some(1)
  ELSE None

UserIdParams == {"1", "2", "3", "0x1", "abc"}
PutValues == {None, Some(""), Some("x")}
PutBodies == [username : PutValues, name : PutValues, token : PutValues]

\* faulty variant: `if (token)` instead of `if (token !== undefined)`
PutFieldTruthy(v) == TruthyStr(v)

\* `username !== undefined`: the field is present in the body
PutFieldSupplied(v) == v # None

\* updateFields after the three ifs: one "COLUMN = :bind" clause per supplied field
PutUpdateFields(body) ==
  LET f1 == IF PutFieldSupplied(body.username)
            THEN <<[col |-> "DS_USERNAME", bind |-> "username"]>> ELSE <<>>
      f2 == IF PutFieldSupplied(body.name)
            THEN Append(f1, [col |-> "NM_USER", bind |-> "name"]) ELSE f1
  IN IF PutFieldSupplied(body.token)
     THEN Append(f2, [col |-> "DS_TOKEN", bind |-> "token"]) ELSE f2

\* bindData after the three ifs and `bindData.id = numericId`
PutBindData(body, numericId) ==
  [b \in {c.bind : c \in SeqToSet(PutUpdateFields(body))} |-> body[b]]
    @@ ("id" :> numericId)

\* UPDATE T_CCG_USER SET <clauses> on one row
RECURSIVE ApplySetClauses(_, _, _, _)
ApplySetClauses(row, clauses, i, binds) ==
  IF i > Len(clauses) THEN row
  ELSE ApplySetClauses([row EXCEPT ![clauses[i].col] = OracleStr(binds[clauses[i].bind])],
                       clauses, i + 1, binds)

\* T_CCG_USER as connection h sees it
UsersView(h) == ApplyUserUpdates(users, txn[h])

\* the rows `WHERE ID_USER = :id` selects
PutTargets(h, binds) == {u \in DOMAIN users : u = binds["id"]}

\* the work of the UPDATE
UpdateUserWork(h, t, clauses, binds) ==
  [t EXCEPT !.updUsers =
     {r \in @ : r.id \notin PutTargets(h, binds)}
       \cup {[id |-> u, row |-> ApplySetClauses(UsersView(h)[u], clauses, 1, binds)] :
               u \in PutTargets(h, binds)}]

\* faulty variant: the builder lets an empty clause list through
PutEmptyUpdateAllowed(updateFields) == FALSE

\* `if (updateFields.length === 0)`
PutNoFieldSupplied(updateFields) == Len(updateFields) = 0

StartPutUser(h) ==
  /\ CanStart(h)
  /\ \E id \in UserIdParams : \E body \in PutBodies :
       /\ op' = [op EXCEPT ![h] = "PUT /user/:id"]
       /\ arg' = [arg EXCEPT ![h] = [id |-> id, body |-> body]]
       /\ IF PutNoFieldSupplied(PutUpdateFields(body))
          THEN /\ Send(h, 400, "Nenhum campo para atualizar foi fornecido")
               /\ Log(h, <<"res">>)
               /\ Goto(h, "done")
          ELSE IF JsNumber(id) = None
          THEN /\ Send(h, 400, "ID de usuario invalido")
               /\ Log(h, <<"res">>)
               /\ Goto(h, "done")
          ELSE /\ Goto(h, "put_getConnection")
               /\ UNCHANGED <<resp, ev>>
  /\ UNCHANGED <<dbVars, conn, txn, newId, fault, persisted, aggVars, proxyVars>>

PutGetConnection(h) ==
  /\ pc[h] = "put_getConnection"
  /\ \E ok \in BOOLEAN : GetConnection(h, ok, None, "put_execute")
  /\ UNCHANGED <<dbVars, op, arg, txn, newId, persisted, aggVars, proxyVars>>

\* const result = await connection.execute(sql, bindData): no options given;
\* if (result.rowsAffected === 0) return res.status(404)...
PutExecute(h) ==
  /\ pc[h] = "put_execute"
  /\ LET clauses == PutUpdateFields(arg[h].body)
         binds == PutBindData(arg[h].body, Val(JsNumber(arg[h].id)))
     IN \/ /\ Executed(h, UpdateUserWork(h, txn[h], clauses, binds),
                       EffectiveAutoCommit(None))
           /\ IF PutTargets(h, binds) = {}
              THEN /\ Send(h, 404, "Usuario nao encontrado")
                   /\ Log(h, <<"execute", "res">>)
                   /\ Goto(h, "finally")
              ELSE /\ Log(h, <<"execute">>)
                   /\ Goto(h, "put_commit")
                   /\ UNCHANGED resp
           /\ UNCHANGED fault
        \/ /\ CatchPlain(h)
           /\ Log(h, <<"execute", "res">>)
           /\ Threw(h, "execute")
           /\ UNCHANGED <<articles, related, users, txn, persisted>>
  /\ UNCHANGED <<artSeq, relSeq, op, arg, conn, newId, aggVars, proxyVars>>

\* await connection.commit(); res.status(200).json(...)
PutCommit(h) ==
  /\ pc[h] = "put_commit"
  /\ \/ /\ CommitWork(h, txn[h])
        /\ Send(h, 200, "Usuario atualizado com sucesso")
        /\ Log(h, <<"commit", "res">>)
        /\ Goto(h, "finally")
        /\ UNCHANGED fault
     \/ /\ CatchPlain(h)
        /\ Log(h, <<"commit", "res">>)
        /\ Threw(h, "commit")
        /\ UNCHANGED <<articles, related, users, txn, persisted>>
  /\ UNCHANGED <<artSeq, relSeq, op, arg, conn, newId, aggVars, proxyVars>>

(* -------------------------------- POST /login ------------------------- *)
LoginBodies ==
  [username : {None, Some("u"), Some("w")},
   token : {None, Some(""), Some("good"), Some("bad"), Some("x")}]

\* faulty variant: the query compares the login name only
LoginMatchesNameOnly(row, username, token) == row.DS_USERNAME = username

\* WHERE DS_username = :username AND ds_token = :token (a NULL column equals nothing)
LoginMatches(row, username, token) ==
  row.DS_USERNAME = username /\ row.DS_TOKEN = token

\* result.rows of the login SELECT, as the ID_USER of each row
LoginRows(h) ==
  {u \in DOMAIN users :
     LoginMatches(UsersView(h)[u], arg[h].body.username, arg[h].body.token)}

InvalidCredentials == "Combinacao de usuario e token invalida"

StartLogin(h) ==
  /\ CanStart(h)
  /\ \E body \in LoginBodies :
       /\ op' = [op EXCEPT ![h] = "POST /login"]
       /\ arg' = [arg EXCEPT ![h] = [id |-> "", body |-> body]]
       /\ IF ~TruthyStr(body.username) \/ ~TruthyStr(body.token)
          THEN /\ Send(h, 400, "username and token are required.")
               /\ Log(h, <<"res">>)
               /\ Goto(h, "done")
          ELSE /\ Goto(h, "login_getConnection")
               /\ UNCHANGED <<resp, ev>>
  /\ UNCHANGED <<dbVars, conn, txn, newId, fault, persisted, aggVars, proxyVars>>

LoginGetConnection(h) ==
  /\ pc[h] = "login_getConnection"
  /\ \E ok \in BOOLEAN : GetConnection(h, ok, None, "login_execute")
  /\ UNCHANGED <<dbVars, op, arg, txn, newId, persisted, aggVars, proxyVars>>

\* const result = await connection.execute(...);
\* if (result.rows.length > 0) res.json({userId, username}) else res.status(401)...
LoginExecute(h) ==
  /\ pc[h] = "login_execute"
  /\ \/ /\ IF LoginRows(h) # {}
           THEN \E u \in LoginRows(h) :
                  Send(h, 200, [userId |-> u, username |-> UsersView(h)[u].NM_USER])
           ELSE Send(h, 401, InvalidCredentials)
        /\ Goto(h, "finally")
        /\ Log(h, <<"execute", "res">>)
        /\ UNCHANGED fault
     \/ /\ CatchPlain(h)
        /\ Log(h, <<"execute", "res">>)
        /\ Threw(h, "execute")
  /\ UNCHANGED <<dbVars, op, arg, conn, txn, newId, persisted, aggVars, proxyVars>>

(* --------------------------- the user requests ------------------------ *)
NextUser ==
  \E h \in Req :
    \/ StartLogin(h)
    \/ LoginGetConnection(h)
    \/ LoginExecute(h)
    \/ StartPutUser(h)
    \/ PutGetConnection(h)
    \/ PutExecute(h)
    \/ PutCommit(h)
    \/ Finally(h)

\* the user requests start from the two User rows and no Article
InitUser ==
  /\ articles = {} /\ related = <<>> /\ users = InitUsers
  /\ artSeq = 1 /\ relSeq = 1
  /\ InitRequests
  /\ aggRows = <<>>
  /\ aggOut = [many |-> None, one |-> None]
  /\ InitProxy

SpecUser == InitUser /\ [][NextUser]_vars

(* --------------------- the dialogue-service proxy --------------------- *)
\* proxy calls are served in slot order (the slots are interchangeable)
CallCanStart(c) == cpc[c] = "idle" /\ (IF c = 1 THEN TRUE ELSE cpc[c - 1] # "idle")

\* session.result.session_id of the n-th session the service creates
ServiceSessionId(n) == "s" \o ToString(n)

Reply(c, code, body) ==
  cresp' = [cresp EXCEPT ![c] = Append(@, [code |-> code, body |-> body])]

\* app.get("/api/session"): assistant.createSession(...) is called
StartSession(c) ==
  /\ CallCanStart(c)
  /\ cop' = [cop EXCEPT ![c] = "GET /api/session"]
  /\ svc' = [svc EXCEPT ![c] =
               Some(ServiceSessionId(1 + Cardinality({d \in Call : svc[d] # None})))]
  /\ cpc' = [cpc EXCEPT ![c] = "createSession"]
  /\ UNCHANGED <<sessionId, cresp, forwarded, stored>>
  /\ UNCHANGED <<dbVars, reqVars, aggVars>>

\* faulty variant: a session id already held is kept
SessionCreatedKeepsFirst(c) ==
  /\ cpc[c] = "createSession"
  /\ sessionId' = IF sessionId = None THEN svc[c] ELSE sessionId
  /\ stored' = Append(stored, [call |-> c, id |-> Val(svc[c])])
  /\ Reply(c, 200, [sessionId |-> sessionId'])
  /\ cpc' = [cpc EXCEPT ![c] = "done"]
  /\ UNCHANGED <<svc, cop, forwarded>>
  /\ UNCHANGED <<dbVars, reqVars, aggVars>>

\* createSession resolved:
\* sessionId = session.result.session_id; res.json({ sessionId })
SessionCreated(c) ==
  /\ cpc[c] = "createSession"
  /\ sessionId' = svc[c]
  /\ stored' = Append(stored, [call |-> c, id |-> Val(svc[c])])
  /\ Reply(c, 200, [sessionId |-> sessionId'])
  /\ cpc' = [cpc EXCEPT ![c] = "done"]
  /\ UNCHANGED <<svc, cop, forwarded>>
  /\ UNCHANGED <<dbVars, reqVars, aggVars>>

\* faulty variant: a failed session start forgets the session held
SessionFailedClears(c) ==
  /\ cpc[c] = "createSession"
  /\ sessionId' = None
  /\ Reply(c, 500, "Error creating session")
  /\ cpc' = [cpc EXCEPT ![c] = "done"]
  /\ UNCHANGED <<svc, cop, forwarded, stored>>
  /\ UNCHANGED <<dbVars, reqVars, aggVars>>

\* createSession threw: catch (err) { res.status(500).send(...) }
SessionFailed(c) ==
  /\ cpc[c] = "createSession"
  /\ Reply(c, 500, "Error creating session")
  /\ cpc' = [cpc EXCEPT ![c] = "done"]
  /\ UNCHANGED <<sessionId, svc, cop, forwarded, stored>>
  /\ UNCHANGED <<dbVars, reqVars, aggVars>>

\* faulty variant: the message is forwarded whether or not a session is held
StartMessageUnchecked(c) ==
  /\ CallCanStart(c)
  /\ cop' = [cop EXCEPT ![c] = "POST /api/message"]
  /\ forwarded' = Append(forwarded, [call |-> c, sessionId |-> sessionId])
  /\ cpc' = [cpc EXCEPT ![c] = "message"]
  /\ UNCHANGED cresp
  /\ UNCHANGED <<sessionId, svc, stored>>
  /\ UNCHANGED <<dbVars, reqVars, aggVars>>

\* app.post("/api/message"): if (!sessionId) return 400;
\* otherwise assistant.message({ sessionId, ... }) is called
StartMessage(c) ==
  /\ CallCanStart(c)
  /\ cop' = [cop EXCEPT ![c] = "POST /api/message"]
  /\ IF ~TruthyStr(sessionId)
     THEN /\ Reply(c, 400, "Session not started. Please call /api/session first.")
          /\ cpc' = [cpc EXCEPT ![c] = "done"]
          /\ UNCHANGED forwarded
     ELSE /\ forwarded' = Append(forwarded, [call |-> c, sessionId |-> sessionId])
          /\ cpc' = [cpc EXCEPT ![c] = "message"]
          /\ UNCHANGED cresp
  /\ UNCHANGED <<sessionId, svc, stored>>
  /\ UNCHANGED <<dbVars, reqVars, aggVars>>

\* assistant.message resolved: res.json(response.result.output)
MessageAnswered(c) ==
  /\ cpc[c] = "message"
  /\ Reply(c, 200, "output")
  /\ cpc' = [cpc EXCEPT ![c] = "done"]
  /\ UNCHANGED <<sessionId, svc, cop, forwarded, stored>>
  /\ UNCHANGED <<dbVars, reqVars, aggVars>>

\* assistant.message threw: catch (err) { res.status(500).send(...) }
MessageFailed(c) ==
  /\ cpc[c] = "message"
  /\ Reply(c, 500, "Error communicating with Watson Assistant")
  /\ cpc' = [cpc EXCEPT ![c] = "done"]
  /\ UNCHANGED <<sessionId, svc, cop, forwarded, stored>>
  /\ UNCHANGED <<dbVars, reqVars, aggVars>>

NextProxy ==
  \E c \in Call :
    \/ StartSession(c)
    \/ SessionCreated(c)
    \/ SessionFailed(c)
    \/ StartMessage(c)
    \/ MessageAnswered(c)
    \/ MessageFailed(c)

SpecProxy == InitUser /\ [][NextProxy]_vars

(* ===================== properties of the article requests ============= *)
Codes(h) == [i \in 1..Len(resp[h]) |-> resp[h][i].code]
Count(s, x) == Cardinality({i \in 1..Len(s) : s[i] = x})
Positions(s, x) == {i \in 1..Len(s) : s[i] = x}
Acquired(h) == conn[h].state # "undefined"
FaultCalls(h) == [i \in 1..Len(fault[h]) |-> fault[h][i].call]
IsPost(h) == op[h] = "POST /article"
IsDelete(h) == op[h] = "DELETE /article/:id"
\* no committed row of Article id or of its Related items
NoRowsOf(id) ==
  /\ \A a \in articles : a.id # id
  /\ \A i \in 1..Len(related) : related[i].articleId # id
\* the child DELETE of cascade-delete went through
ChildDeleteDone(h) ==
  IsDelete(h) /\ Count(ev[h], "execute") >= 1
    /\ ~(Count(ev[h], "execute") = 1 /\ fault[h] # <<>> /\ fault[h][1].call = "execute")

\* C1: create-with-children is atomic.  When the batch insert of the Related
\* rows throws after the Article insert succeeded, then once the handler has
\* finished the caller got 500, nothing of the request was committed, and the
\* tables hold neither the new Article row nor a Related row of it.
C1_CreateAtomicWhenBatchFails ==
  \A h \in Req :
    (IsPost(h) /\ pc[h] = "done" /\ Count(FaultCalls(h), "executeMany") > 0)
      => /\ Codes(h) = <<500>>
         /\ persisted[h] = EmptyTxn
         /\ NoRowsOf(Val(newId[h]))

\* C2: commit is the single visibility boundary of a write unit of work.
\* Nothing a POST /article or DELETE /article/:id did is committed before the
\* handler's own commit() call; while a POST stands between its parent insert
\* and its commit the new Article is not among the committed rows; and a
\* reader that was answered with the new Article got all of its Related items.
C2_CommitIsVisibilityBoundary ==
  /\ \A h \in Req :
       ((IsPost(h) \/ IsDelete(h)) /\ Count(ev[h], "commit") = 0)
         => persisted[h] = EmptyTxn
  /\ \A h \in Req :
       (IsPost(h) /\ pc[h] \in {"post_executeMany", "post_commit"})
         => NoRowsOf(Val(newId[h]))
  /\ \A h \in Req : \A g \in Req :
       (/\ IsPost(h) /\ newId[h] # None
        /\ op[g] = "GET /article/:id" /\ Codes(g) = <<200>>
        /\ resp[g][1].body.id = NumToString(Val(newId[h])))
         => Len(resp[g][1].body.related) = Len(arg[h].body.related.items)

\* C3: cascade-delete is atomic under faults.  When the child delete went
\* through and the parent delete or the commit then throws, the handler calls
\* rollback, answers 500, and nothing of the request is committed: every
\* Related row of the Article is still there.
C3_DeleteAtomicUnderFaults ==
  \A h \in Req :
    (/\ ChildDeleteDone(h) /\ pc[h] = "done"
     /\ fault[h] # <<>> /\ fault[h][1].call \in {"execute", "commit"})
      => /\ Codes(h) = <<500>>
         /\ Count(ev[h], "rollback") > 0
         /\ persisted[h] = EmptyTxn

\* C4: a cascade-delete that finds no Article row (the parent DELETE affects
\* no row) reports 404 and leaves the tables as they were: nothing the
\* request did is committed, Related rows of that id included.
C4_DeleteNotFoundChangesNothing ==
  \A h \in Req :
    (IsDelete(h) /\ Count(Codes(h), 404) > 0) => persisted[h] = EmptyTxn

\* C5: a cascade-delete answered 200 has removed the Article row of its id and
\* the Related rows of that id, and nothing else: no row of the id is left in
\* the tables, and every row the request removed is a row of that id.
C5_DeleteRemovesExactlyTheArticle ==
  \A h \in Req :
    (IsDelete(h) /\ Count(Codes(h), 200) > 0)
      => /\ NoRowsOf(BoundId(h))
         /\ Cardinality(persisted[h].delArt) = 1
         /\ \A a \in persisted[h].delArt : a.id = BoundId(h)
         /\ \A r \in persisted[h].delRel : r.articleId = BoundId(h)
         /\ persisted[h].insArt = {} /\ persisted[h].insRel = <<>>
         /\ persisted[h].updUsers = {}

\* a cascade-delete removed an Article with a Related row while another
\* Article and its Related row stay
C5_Witness ==
  \E h \in Req :
    /\ IsDelete(h) /\ Codes(h) = <<200>> /\ pc[h] = "done"
    /\ persisted[h].delRel # {}
    /\ articles # {} /\ related # <<>>

\* C6: every handler releases the connection it obtained exactly once, on
\* every exit path: close() is called at most once, only on a connection that
\* getConnection returned, and a finished handler holds no open connection.
C6_ConnectionReleasedExactlyOnce ==
  \A h \in Req :
    /\ Count(ev[h], "close") <= 1
    /\ Count(ev[h], "close") = 1
         => (Acquired(h) /\ Count(FaultCalls(h), "getConnection") = 0)
    /\ pc[h] = "done"
         => /\ conn[h].state # "open"
            /\ Acquired(h) => Count(ev[h], "close") = 1
            /\ Count(ev[h], "close") = 1 => ev[h][Len(ev[h])] = "close"

\* a handler finished after its rollback threw, and one after its 404 return
C6_Witness ==
  /\ \E h \in Req :
       /\ pc[h] = "done" /\ Count(FaultCalls(h), "rollback") > 0
       /\ Count(ev[h], "close") = 1
  /\ \E h \in Req :
       /\ pc[h] = "done" /\ IsDelete(h) /\ Codes(h) = <<404>>
       /\ Count(ev[h], "close") = 1

\* the first driver call of request h that threw, when it is a statement,
\* a commit or a rollback of a transactional write
WriteFailed(h) ==
  /\ (IsPost(h) \/ IsDelete(h))
  /\ fault[h] # <<>>
  /\ fault[h][1].call \in {"execute", "executeMany", "commit", "rollback"}

\* C7: in POST /article and DELETE /article/:id, after a statement, commit or
\* rollback threw on the connection, rollback is called on it after the
\* failure and before the 500 response and before close(); the handler sends
\* 500 and nothing else.  In cascade-delete a 404 is sent only after a
\* rollback call that did not throw.
C7_RollbackBeforeErrorResponse ==
  \A h \in Req :
    /\ (WriteFailed(h) /\ pc[h] \in {"finally", "done"})
         => /\ Codes(h) = <<500>>
            /\ \E r \in Positions(ev[h], "rollback") :
                 /\ r > fault[h][1].at
                 /\ \A s \in Positions(ev[h], "res") : r < s
                 /\ \A c \in Positions(ev[h], "close") : r < c
    /\ (IsDelete(h) /\ Count(Codes(h), 404) > 0)
         => \E r \in Positions(ev[h], "rollback") :
              /\ \A i \in 1..Len(fault[h]) : fault[h][i].at # r
              /\ \A s \in Positions(ev[h], "res") : r < s

\* a POST whose batch insert threw and a DELETE answered 404, both finished
C7_Witness ==
  /\ \E h \in Req :
       /\ IsPost(h) /\ pc[h] = "done" /\ fault[h] # <<>>
       /\ fault[h][1].call = "executeMany" /\ Codes(h) = <<500>>
  /\ \E h \in Req : IsDelete(h) /\ pc[h] = "done" /\ Codes(h) = <<404>>

(* ================= the aggregation loops on any row sequence ========== *)
\* The rows a join can hand to the readers: a parent id with a child id that
\* is NULL (the outer join found no child) or any NUMBER the store assigned.
AggParentIds == {1, 2}
AggChildIds == {None} \cup {Some(n) : n \in 0..MaxChildId}

AggRow(p, c) ==
  [ID_ARTICLE |-> p,
   NM_ARTICLE |-> Some(IF p = 1 THEN "A" ELSE "B"),
   T_CCG_USER_ID_USER |-> Some(1),
   ID_RELATED |-> c,
   DS_TYPE |-> IF c = None THEN None ELSE Some("link"),
   DS_URL |-> IF c = None THEN None ELSE Some(NumToString(Val(c))),
   DS_CONTENT |-> None]

AggRowSet == {AggRow(p, c) : p \in AggParentIds, c \in AggChildIds}

InitAgg ==
  /\ articles = {} /\ related = <<>> /\ users = InitUsers
  /\ artSeq = 1 /\ relSeq = 1
  /\ InitRequests
  /\ aggRows = <<>>
  /\ aggOut = [many |-> None, one |-> None]
  /\ InitProxy

\* result.rows grows by one row
AggReceiveRow ==
  /\ Len(aggRows) < MaxRows
  /\ \E row \in AggRowSet : aggRows' = Append(aggRows, row)
  /\ aggOut' = [many |-> None, one |-> None]
  /\ UNCHANGED <<dbVars, reqVars, proxyVars>>

\* the loop of GET /article over result.rows
AggRunList ==
  /\ aggOut.many = None
  /\ aggOut' = [aggOut EXCEPT !.many = Some(AggregateMany(aggRows))]
  /\ UNCHANGED <<dbVars, reqVars, aggRows, proxyVars>>

\* the loop of GET /article/:id over the non-empty rows of one :id
AggRunOne ==
  /\ aggOut.one = None
  /\ Len(aggRows) > 0
  /\ \A i \in 1..Len(aggRows) : aggRows[i].ID_ARTICLE = aggRows[1].ID_ARTICLE
  /\ aggOut' = [aggOut EXCEPT !.one = Some(AggregateOne(aggRows))]
  /\ UNCHANGED <<dbVars, reqVars, aggRows, proxyVars>>

NextAgg == AggReceiveRow \/ AggRunList \/ AggRunOne

SpecAgg == InitAgg /\ [][NextAgg]_vars

\* the places of the rows that are the first of their parent id
FirstSeenAt(rows) ==
  {i \in 1..Len(rows) : \A j \in 1..(i - 1) : rows[j].ID_ARTICLE # rows[i].ID_ARTICLE}
\* the k-th of them
KthFirstSeen(rows, k) ==
  CHOOSE i \in FirstSeenAt(rows) :
    Cardinality({j \in FirstSeenAt(rows) : j < i}) = k - 1
\* the child entries of parent id p: its rows with a non-null child id, in row order
ChildEntriesOf(rows, p) ==
  LET mine == SelectSeq(rows, LAMBDA r : r.ID_ARTICLE = p /\ r.ID_RELATED # None)
  IN [i \in 1..Len(mine) |->
        [type |-> mine[i].DS_TYPE, url |-> mine[i].DS_URL,
         description |-> mine[i].NM_ARTICLE, content |-> mine[i].DS_CONTENT]]

\* C8: for every row sequence with K distinct parent ids, grouped or
\* interleaved, the list reader returns K parent objects in the order the
\* parents were first seen, each with exactly the child entries of the rows of
\* its parent id, in row order.
C8_ListGroupsRowsByParent ==
  aggOut.many # None =>
    LET out == Val(aggOut.many)
    IN /\ Len(out) = Cardinality({aggRows[i].ID_ARTICLE : i \in 1..Len(aggRows)})
       /\ \A k \in 1..Len(out) :
            LET first == aggRows[KthFirstSeen(aggRows, k)]
            IN /\ out[k].id = NumToString(first.ID_ARTICLE)
               /\ out[k].name = first.NM_ARTICLE
               /\ out[k].userId = first.T_CCG_USER_ID_USER
               /\ out[k].related = ChildEntriesOf(aggRows, first.ID_ARTICLE)

\* C9: in both readers a row contributes a child entry if and only if its
\* child id is non-null, whatever number the id is: each parent object holds
\* as many entries as its parent id has rows with a non-null child id (none
\* when all are null).
C9_ChildEntryIffChildIdNotNull ==
  /\ aggOut.many # None =>
       \A k \in 1..Len(Val(aggOut.many)) :
         Len(Val(aggOut.many)[k].related)
           = Cardinality({i \in 1..Len(aggRows) :
                            /\ NumToString(aggRows[i].ID_ARTICLE) = Val(aggOut.many)[k].id
                            /\ aggRows[i].ID_RELATED # None})
  /\ aggOut.one # None =>
       Len(Val(aggOut.one).related)
         = Cardinality({i \in 1..Len(aggRows) : aggRows[i].ID_RELATED # None})

(* ====================== properties of the user requests =============== *)
IsPut(h) == op[h] = "PUT /user/:id"
UserColumns == {"DS_USERNAME", "NM_USER", "DS_TOKEN"}
\* the body field a column is set from
FieldOfColumn(col) ==
  IF col = "DS_USERNAME" THEN "username" ELSE IF col = "NM_USER" THEN "name" ELSE "token"

\* C10: the UPDATE of a PUT /user/:id that goes on to answer 200 sets, on the
\* row of the given id, exactly the columns whose field is present in the
\* body, each to the supplied value (the empty string included, in the form
\* the store holds it), and leaves the absent columns of that row and every
\* other row as they were; the commit and the 200 response change no row.
C10_PutChangesExactlySuppliedFields ==
  [][\A h \in Req :
       /\ (pc[h] = "put_execute" /\ pc'[h] = "put_commit")
            => \A u \in DOMAIN users : \A col \in UserColumns :
                 users'[u][col] =
                   IF u = Val(JsNumber(arg[h].id)) /\ arg[h].body[FieldOfColumn(col)] # None
                   THEN OracleStr(arg[h].body[FieldOfColumn(col)])
                   ELSE users[u][col]
       /\ (pc[h] = "put_commit" /\ Codes(h)' = <<200>>) => users' = users]_vars

\* a PUT {token: ""} on user 1 answered 200: the token is emptied, the
\* display name and the other user keep their values
C10_Witness ==
  \E h \in Req :
    /\ IsPut(h) /\ Codes(h) = <<200>> /\ arg[h].id = "1"
    /\ arg[h].body = [username |-> None, name |-> None, token |-> Some("")]
    /\ users[1].DS_TOKEN = OracleStr(Some(""))
    /\ users[1].NM_USER = InitUsers[1].NM_USER
    /\ users[2] = InitUsers[2]

\* the fields of a PUT /user/:id body that are present
PutSuppliedFields(body) == {f \in {"username", "name", "token"} : body[f] # None}

\* C11: the partial-update builder never emits an UPDATE without an
\* assignment clause.  A PUT /user/:id whose body has none of username, name,
\* token is answered 400 at once: no connection is obtained, no statement is
\* executed, nothing of the request reaches T_CCG_USER; and every PUT that
\* executed its UPDATE had at least one field present.
C11_EmptyUpdateRejected ==
  \A h \in Req :
    IsPut(h) =>
      /\ PutSuppliedFields(arg[h].body) = {}
           => /\ pc[h] = "done"
              /\ Codes(h) = <<400>>
              /\ ev[h] = <<"res">>
              /\ ~Acquired(h)
              /\ txn[h] = EmptyTxn /\ persisted[h] = EmptyTxn
      /\ Count(ev[h], "execute") > 0 => PutSuppliedFields(arg[h].body) # {}

\* a PUT {} on an existing user was answered 400 and T_CCG_USER is as it was,
\* while a PUT with a field present executed its UPDATE
C11_Witness ==
  /\ \E h \in Req :
       /\ IsPut(h) /\ arg[h].id = "1" /\ PutSuppliedFields(arg[h].body) = {}
       /\ Codes(h) = <<400>>
  /\ \E g \in Req : IsPut(g) /\ Count(ev[g], "execute") > 0
  /\ users # InitUsers

IsLogin(h) == op[h] = "POST /login"
\* a user id written as a decimal number
DecimalId(s) == \E n \in 0..IdLimit : s = NumToString(n)

\* C12: validation failures never reach the storage layer.  A request that
\* was answered 400 obtained no connection, executed no statement and
\* committed nothing; and a PUT /user/:id whose id is not a decimal number
\* obtains no connection and is answered 400.
C12_ValidationNeverReachesStorage ==
  \A h \in Req :
    /\ Count(Codes(h), 400) > 0
         => /\ ev[h] = <<"res">>
            /\ ~Acquired(h)
            /\ txn[h] = EmptyTxn /\ persisted[h] = EmptyTxn
    /\ (IsPut(h) /\ ~DecimalId(arg[h].id))
         => /\ ~Acquired(h)
            /\ Count(ev[h], "getConnection") = 0
            /\ pc[h] = "done" => Codes(h) = <<400>>

\* the stored Users whose login name and token are the ones request h supplied
StoredMatches(h) ==
  {u \in DOMAIN users :
     /\ users[u].DS_USERNAME = arg[h].body.username
     /\ users[u].DS_TOKEN = arg[h].body.token}

\* C13: when the SELECT of a POST /login returns, the answer is 200, with the
\* id and display name of a stored User, only if a stored User has exactly
\* the supplied login name and exactly the supplied token, and 401 otherwise;
\* any two 401 answers are the same response reached by the same calls,
\* whether the login name was unknown or the token wrong; and no step of a
\* login changes a table or leaves work on its connection.
C13_LoginExactMatchOr401 ==
  /\ [](\A h \in Req : \A g \in Req :
         (IsLogin(h) /\ IsLogin(g) /\ Codes(h) = <<401>> /\ Codes(g) = <<401>>
            /\ pc[h] = "done" /\ pc[g] = "done" /\ fault[h] = <<>> /\ fault[g] = <<>>)
           => (resp[h] = resp[g] /\ ev[h] = ev[g]))
  /\ [][\A h \in Req :
         /\ (pc[h] = "login_execute" /\ pc'[h] = "finally" /\ fault'[h] = fault[h])
              => IF StoredMatches(h) # {}
                 THEN \E u \in StoredMatches(h) :
                        resp'[h] = <<[code |-> 200,
                                      body |-> [userId |-> u, username |-> users[u].NM_USER]]>>
                 ELSE Codes(h)' = <<401>>
         /\ (op'[h] = "POST /login" /\ pc'[h] # pc[h])
              => /\ <<articles, related, users>>' = <<articles, related, users>>
                 /\ txn'[h] = EmptyTxn /\ persisted'[h] = EmptyTxn]_vars

\* two finished logins answered 401: one with a login name no User has, one
\* with the login name of a stored User and a token that is not that User's
C13_Witness ==
  \E h \in Req : \E g \in Req :
    /\ IsLogin(h) /\ IsLogin(g) /\ pc[h] = "done" /\ pc[g] = "done"
    /\ Codes(h) = <<401>> /\ Codes(g) = <<401>>
    /\ \A u \in DOMAIN users : users[u].DS_USERNAME # arg[h].body.username
    /\ \E u \in DOMAIN users :
         /\ users[u].DS_USERNAME = arg[g].body.username
         /\ users[u].DS_TOKEN # arg[g].body.token

IsGetOne(h) == op[h] = "GET /article/:id"
\* the SELECT of GET /article/:id of request g returns in this step
GetOneReturns(g) ==
  IsGetOne(g) /\ pc[g] = "one_execute" /\ pc'[g] = "finally" /\ fault'[g] = fault[g]

\* C14: round trip.  A GET /article/:id whose SELECT runs after a POST
\* /article was answered 201, for the id that response carries, is answered
\* 200 with the object the POST returned: same id, name, userId and related
\* entries, the entries whose url or content was omitted (returned as the
\* empty string by the POST) included.  A GET /article/:id whose SELECT runs
\* after a DELETE /article/:id of the same id was answered 200 is answered 404.
C14_RoundTrip ==
  [][\A h \in Req : \A g \in Req :
       /\ (IsPost(h) /\ Codes(h) = <<201>> /\ GetOneReturns(g)
              /\ arg[g].id = resp[h][1].body.id)
            => resp'[g] = <<[code |-> 200, body |-> resp[h][1].body]>>
       /\ (IsDelete(h) /\ Codes(h) = <<200>> /\ GetOneReturns(g)
              /\ arg[g].id = arg[h].id)
            => Codes(g)' = <<404>>]_vars

(* ========================= properties of the proxy ==================== *)
CallCodes(c) == [i \in 1..Len(cresp[c]) |-> cresp[c][i].code]
IsSessionStart(c) == cop[c] = "GET /api/session"
IsMessage(c) == cop[c] = "POST /api/message"
\* the id stored last, None while nothing has been stored
LastStored == IF stored = <<>> THEN None ELSE Some(stored[Len(stored)].id)
\* call c hands its message to the dialogue service in this step
Forwards(c) ==
  /\ cpc[c] = "idle" /\ cop'[c] = "POST /api/message"
  /\ Len(forwarded') = Len(forwarded) + 1
\* call c is a POST /api/message that is handled in this step
HandlesMessage(c) == cpc[c] = "idle" /\ cop'[c] = "POST /api/message"

\* C15: the process holds one session id and the last writer wins.  At every
\* moment sessionId is the id of the createSession call whose result was
\* stored last, in whatever order the concurrent calls resolve; each
\* session-start answered 200 carries the id its own call created; and every
\* message handed to the dialogue service carries the id stored last.
C15_LastSessionStartWins ==
  /\ [](/\ sessionId = LastStored
        /\ \A c \in Call :
             (IsSessionStart(c) /\ CallCodes(c) = <<200>>)
               => cresp[c][1].body = [sessionId |-> svc[c]])
  /\ [][\A c \in Call :
         Forwards(c)
           => /\ stored # <<>>
              /\ forwarded' = Append(forwarded, [call |-> c, sessionId |-> LastStored])]_vars

\* two overlapping session-starts resolved in the opposite order of their
\* calls, and a later message went out with the id stored last
C15_Witness ==
  /\ Len(stored) >= 2
  /\ stored[1].call > stored[2].call
  /\ stored[1].id # stored[2].id
  /\ \E i \in 1..Len(forwarded) :
       /\ forwarded[i].sessionId = Some(stored[2].id)
       /\ sessionId = Some(stored[2].id)

\* C16: while no session-start has succeeded since the process started, a
\* POST /api/message is answered 400 at once and nothing is handed to the
\* dialogue service.
C16_MessageWithoutSessionRejected ==
  /\ [](stored = <<>> => forwarded = <<>>)
  /\ [][\A c \in Call :
         (HandlesMessage(c) /\ stored = <<>>)
           => /\ CallCodes(c)' = <<400>>
              /\ cpc'[c] = "done"
              /\ forwarded' = forwarded]_vars

\* a message was rejected with 400 while a createSession call was in flight
C16_Witness ==
  \E c \in Call : \E d \in Call :
    /\ IsMessage(c) /\ CallCodes(c) = <<400>> /\ forwarded = <<>>
    /\ IsSessionStart(d) /\ cpc[d] = "createSession" /\ d < c

\* a session-start of the process has failed
SomeSessionStartFailed == \E d \in Call : IsSessionStart(d) /\ CallCodes(d) = <<500>>

\* C19: a session-start whose createSession throws answers 500 and leaves
\* sessionId as it was.  After such a failure a message is handed to the
\* dialogue service with the id of the last session-start that succeeded, and
\* is rejected with 400 when none has succeeded.
C19_FailedSessionStartKeepsSession ==
  /\ [](\A i \in 1..Len(stored) : CallCodes(stored[i].call) = <<200>>)
  /\ [][\A c \in Call :
         /\ (cpc[c] = "createSession" /\ CallCodes(c)' = <<500>>)
              => sessionId' = sessionId
         /\ (HandlesMessage(c) /\ SomeSessionStartFailed)
              => IF stored = <<>>
                 THEN CallCodes(c)' = <<400>> /\ forwarded' = forwarded
                 ELSE /\ forwarded' = Append(forwarded, [call |-> c, sessionId |-> LastStored])
                      /\ cresp'[c] = <<>>]_vars

\* a session-start succeeded, a later one failed, and a message after that
\* went out with the id of the first
C19_Witness ==
  \E a \in Call : \E b \in Call : \E c \in Call :
    /\ a < b /\ b < c
    /\ IsSessionStart(a) /\ CallCodes(a) = <<200>>
    /\ IsSessionStart(b) /\ CallCodes(b) = <<500>>
    /\ IsMessage(c) /\ CallCodes(c) = <<200>>
    /\ stored = <<[call |-> a, id |-> Val(svc[a])]>>
    /\ forwarded = <<[call |-> c, sessionId |-> svc[a]]>>

(* ================= the order of the steps of POST /article ============ *)
\* every a of s stands before every b of s
AllBefore(s, a, b) == \A i \in Positions(s, a) : \A j \in Positions(s, b) : i < j
\* the Related rows request h has inserted, pending or committed
ChildRowsOf(h) == SeqToSet(txn[h].insRel) \cup SeqToSet(persisted[h].insRel)

\* C17: create-with-children runs its steps in a fixed order.  The batch
\* starts only after the parent insert returned the generated id, and only
\* for a non-empty related list; every row of the batch carries that id and
\* the request's userId; commit is called only after the parent insert and,
\* for a non-empty list, the batch went through; 201 is sent only after a
\* commit that did not throw and carries the generated id.
C17_CreateStepsInOrder ==
  \A h \in Req :
    IsPost(h) =>
      LET items == arg[h].body.related.items
      IN /\ pc[h] = "post_executeMany" => newId[h] # None
         /\ Count(ev[h], "executeMany") > 0
              => /\ Len(items) > 0
                 /\ newId[h] # None
                 /\ Count(ev[h], "execute") = 1
                 /\ AllBefore(ev[h], "execute", "executeMany")
                 /\ Count(FaultCalls(h), "execute") = 0
         /\ \A r \in ChildRowsOf(h) :
              r.articleId = Val(newId[h]) /\ r.userId = Val(arg[h].body.userId)
         /\ Count(ev[h], "commit") > 0
              => /\ Count(ev[h], "execute") = 1
                 /\ AllBefore(ev[h], "execute", "commit")
                 /\ Count(FaultCalls(h), "execute") = 0
                 /\ Count(ev[h], "executeMany") = (IF Len(items) > 0 THEN 1 ELSE 0)
                 /\ AllBefore(ev[h], "executeMany", "commit")
                 /\ Count(FaultCalls(h), "executeMany") = 0
         /\ Count(Codes(h), 201) > 0
              => /\ Count(ev[h], "commit") = 1
                 /\ Count(FaultCalls(h), "commit") = 0
                 /\ AllBefore(ev[h], "commit", "res")
                 /\ resp[h][1].body.id = NumToString(Val(newId[h]))
                 /\ Len(persisted[h].insRel) = Len(items)

\* a POST with two related items was answered 201 after its batch, while a
\* POST with an empty list was answered 201 without one
C17_Witness ==
  \E h \in Req : \E g \in Req :
    /\ IsPost(h) /\ Codes(h) = <<201>> /\ Len(arg[h].body.related.items) = 2
    /\ Count(ev[h], "executeMany") = 1 /\ Len(persisted[h].insRel) = 2
    /\ IsPost(g) /\ Codes(g) = <<201>> /\ Len(arg[g].body.related.items) = 0
    /\ Count(ev[g], "executeMany") = 0
    /\ newId[h] # newId[g]

(* ===================== one response for every request ================= *)
\* the steps of handler h after its entry (the SELECT of GET /article apart:
\* that step is taken whenever the handler stands at it)
HandlerStep(h) ==
  \/ PostGetConnection(h) \/ PostInsertArticle(h) \/ PostExecuteMany(h) \/ PostCommit(h)
  \/ DeleteGetConnection(h) \/ DeleteRelated(h) \/ DeleteArticle(h)
  \/ DeleteNotFound(h) \/ DeleteCommit(h)
  \/ ListGetConnection(h)
  \/ OneGetConnection(h) \/ OneExecute(h)
  \/ CatchRollback(h) \/ Finally(h)
\* handler h can take its next step
CanStep(h) == pc[h] = "list_execute" \/ ENABLED HandlerStep(h)
\* handler h has been entered and has not finished
Running(h) == pc[h] \notin {"idle", "done"}

\* C18: a handler sends exactly one response on every path.  At no point
\* has a request been answered twice; a handler that has reached its finally
\* block or has finished has answered exactly once, also when rollback threw
\* in the 404 branch of the delete, commit threw after the inserts, or close
\* threw; and a handler that has not finished is never left without a next
\* step (the parent DELETE may wait for another request's open transaction,
\* and that request then has a next step).
C18_ExactlyOneResponse ==
  \A h \in Req :
    /\ Len(resp[h]) <= 1
    /\ Count(ev[h], "res") = Len(resp[h])
    /\ pc[h] \in {"finally", "done"} => Len(resp[h]) = 1
    /\ Running(h)
         => \/ CanStep(h)
            \/ /\ pc[h] = "del_deleteArticle"
               /\ \E g \in Req \ {h} : Running(g) /\ CanStep(g)

\* a delete whose rollback threw in the 404 branch, and a create whose commit
\* threw, both finished after a failing close, each with one response
C18_Witness ==
  \E h \in Req : \E g \in Req :
    /\ IsDelete(h) /\ pc[h] = "done" /\ Len(resp[h]) = 1
    /\ fault[h] # <<>> /\ fault[h][1].call = "rollback"
    /\ Count(FaultCalls(h), "close") = 1
    /\ IsPost(g) /\ pc[g] = "done" /\ Len(resp[g]) = 1
    /\ fault[g] # <<>> /\ fault[g][1].call = "commit"
    /\ Count(FaultCalls(g), "close") = 1

====
